---- MODULE Spec2Model ----
(***************************************************************************)
(* offline_folium: the asset resolver (assets.py), the tree rewriter       *)
(* (rewrite.py, map.py) and the two cache populators (__main__.py and      *)
(* vendor_folium_assets.py).                                               *)
(*                                                                         *)
(* Strings are sequences of tokens.  The separators "/" and "?" are tokens *)
(* of their own and no other token contains them, so that rsplit("/"),     *)
(* split("?"), startswith("http://") and path joins are computed on the    *)
(* token sequence exactly as Python computes them on the characters.       *)
(***************************************************************************)
EXTENDS Integers, Sequences, FiniteSets, TLC

VARIABLES
    pc,           \* "cache": no map is built yet, a populator may run;
                  \* "cli_loop", "vendor_loop", "exited": a populator runs;
                  \* "resolved": the resolver was called directly;
                  \* "idle", "walk", "returned": the map is built, rewriting;
                  \* "raised": an exception left rewrite_tree_assets
    default_js,   \* node -> script asset attribute
    default_css,  \* node -> style asset attribute
    children,     \* node -> _children attribute
    files,        \* cache directory: filename -> content (NoFile when absent)
    visited,      \* rewrite_tree_assets: the visited set of the running call
    stack,        \* rewrite_tree_assets: the recursion stack of walk()
    root,         \* root of the running / last rewrite_tree_assets call
    calls,        \* number of rewrite_tree_assets calls started
    rewrites,     \* node -> rewrite_element_assets applications in this call
    resolves,     \* node -> resolver invocations for this node in this call
    js0,          \* default_js at the start of the running call
    css0,         \* default_css at the start of the running call
    done,         \* nodes rewritten by an earlier, completed call
    resolved,     \* last direct resolver call: [url, result]
    tool,         \* the populator that is running: "cli" | "vendor" | "none"
    force,        \* its force flag
    work,         \* its fetch list, in the order of its download loop
    pos,          \* index in work of the next URL of the loop
    success,      \* __main__.download_assets: counter
    skipped,      \* __main__.download_assets: counter
    failed,       \* __main__.download_assets: counter
    failed_urls,  \* __main__.download_assets: list
    ok,           \* vendor_folium_assets.main: counter
    fail,         \* vendor_folium_assets.main: counter
    exit_code,    \* process outcome of the populator, Running until it ends
    warnings,     \* plugin names collect_urls warned about
    report,       \* per loop iteration: [url, status] as printed
    fetched,      \* URLs for which an HTTP GET was issued, in order
    files0,       \* the cache directory when the populator run started
    runs,         \* number of populator runs started
    argv,         \* the command line of the running populator
    prev,         \* the populator run that ended last: [tool, argv, clean]
    heap,         \* the asset list objects that exist, by identity
    js_obj,       \* per node: the object its default_js is bound to, 0 if none
    css_obj       \* per node: the object its default_css is bound to, 0 if none

treeVars == <<default_js, default_css, children, heap, js_obj, css_obj>>
walkVars == <<visited, stack, root, calls, rewrites, resolves, js0, css0, done>>
popVars == <<tool, force, work, pos, success, skipped, failed, failed_urls, ok, fail,
             exit_code, warnings, report, fetched, files0, runs, argv>>
vars == <<pc, default_js, default_css, children, files, visited, stack, root,
          calls, rewrites, resolves, js0, css0, done, resolved,
          tool, force, work, pos, success, skipped, failed, failed_urls, ok, fail,
          exit_code, warnings, report, fetched, files0, runs, argv, prev,
          heap, js_obj, css_obj>>

----------------------------------------------------------------------------
(* Bounds *)

\* rewrite_tree_assets calls, populator runs, failing fetches per run, and the
\* depth of the recursion of walk() (never reached: see C2_Terminates)
MaxCalls == 2
MaxRuns == 2
MaxFail == 1
MaxDepth == 6

----------------------------------------------------------------------------
(* Strings *)

SLASH == "/"
QMARK == "?"

StartsWith(s, p) == Len(s) >= Len(p) /\ SubSeq(s, 1, Len(p)) = p

\* index of the last / first occurrence of token t in s, 0 when there is none
LastIndexOf(s, t) ==
    LET I == {i \in 1..Len(s) : s[i] = t}
    IN  IF I = {} THEN 0 ELSE CHOOSE i \in I : \A j \in I : j <= i

FirstIndexOf(s, t) ==
    LET I == {i \in 1..Len(s) : s[i] = t}
    IN  IF I = {} THEN 0 ELSE CHOOSE i \in I : \A j \in I : i <= j

\* url.rsplit("/", 1)[-1]
RSplitLast(s) == SubSeq(s, LastIndexOf(s, SLASH) + 1, Len(s))

\* url.split("?")[0]
SplitQuery(s) ==
    IF FirstIndexOf(s, QMARK) = 0 THEN s ELSE SubSeq(s, 1, FirstIndexOf(s, QMARK) - 1)

HTTP  == <<"http:", "/", "/">>
HTTPS == <<"https:", "/", "/">>

is_remote(url) == StartsWith(url, HTTP) \/ StartsWith(url, HTTPS)

\* pathlib: dir / name
PathJoin(dir, name) == IF name = <<>> THEN dir ELSE dir \o <<SLASH>> \o name

----------------------------------------------------------------------------
(* The locators of the model *)

U_leaflet_js   == HTTPS \o <<"cdn", "/", "x", "/", "leaflet.js">>
U_leaflet_js_q == HTTPS \o <<"cdn", "/", "x", "/", "leaflet.js", "?", "v=2">>
U_leaflet_css  == HTTPS \o <<"cdn", "/", "x", "/", "leaflet.css">>
U_heat_js      == HTTPS \o <<"cdn", "/", "y", "/", "heat.js">>
U_heat_js_alt  == HTTP \o <<"mirror", "/", "z", "/", "heat.js">>
U_draw_js_q    == HTTPS \o <<"cdn", "/", "d", "/", "draw.js", "?", "v=2">>
U_dir          == HTTPS \o <<"cdn", "/", "x", "/">>
U_root         == HTTPS \o <<"cdn", "/">>
P_local_path   == <<"/", "already", "/", "local", "/", "path.js">>
P_local_leaf   == <<"/", "already", "/", "local", "/", "leaflet.js">>
P_bare_css     == <<"leaflet.css">>
P_data         == <<"data:text", "/", "css,body{}">>

\* the Python object None in the place of a locator: not a str.  It is one
\* token that no string of the model holds.
NoneObject     == <<"<None>">>

Locators == {U_leaflet_js, U_leaflet_js_q, U_leaflet_css, U_heat_js, U_heat_js_alt,
             U_draw_js_q, U_dir, U_root, P_local_path, P_local_leaf, P_bare_css, P_data}

----------------------------------------------------------------------------
(* assets.py: the resolver *)

None == [ok |-> FALSE, path |-> <<>>]
Some(p) == [ok |-> TRUE, path |-> p]

local_dir == <<"/", "site", "/", "offline_folium", "/", "local">>

local_file(filename) == PathJoin(local_dir, filename)

URL_MAP_swapped ==
    (<<"leaflet.js">> :> <<"leaflet.css">>) @@
    (<<"leaflet.css">> :> <<"leaflet.js">>) @@
    (<<"leaflet.awesome-markers.js">> :> <<"leaflet.awesome-markers.js">>) @@
    (<<"leaflet.awesome-markers.css">> :> <<"leaflet.awesome-markers.css">>)

URL_MAP ==
    (<<"leaflet.js">> :> <<"leaflet.js">>) @@
    (<<"leaflet.css">> :> <<"leaflet.css">>) @@
    (<<"leaflet.awesome-markers.js">> :> <<"leaflet.awesome-markers.js">>) @@
    (<<"leaflet.awesome-markers.css">> :> <<"leaflet.awesome-markers.css">>)

resolve_url_to_local(url) ==
    LET basename == RSplitLast(url)
    IN  IF url \in DOMAIN URL_MAP THEN Some(local_file(URL_MAP[url]))
        ELSE IF basename \in DOMAIN URL_MAP THEN Some(local_file(URL_MAP[basename]))
        ELSE None

----------------------------------------------------------------------------
(* rewrite.py: asset lists *)

\* An attribute is absent (hasattr is false), a list of items, or some other
\* value that is no list or tuple.  An item is a (name, url) pair when it has
\* length 2; any other item is malformed and copied as it is.
Absent      == [kind |-> "absent", items |-> <<>>]
NotAList    == [kind |-> "other", items |-> <<>>]
AssetList(s) == [kind |-> "list", items |-> s]

IsPair(item) == Len(item) = 2

\* one iteration of the loop of rewrite_asset_list
rewrite_item_dropping(item) ==
    IF ~IsPair(item) THEN <<item>>
    ELSE LET local_path == resolve_url_to_local(item[2])
         IN  IF local_path.ok THEN <<<<item[1], local_path.path>>>> ELSE <<>>

rewrite_item(item) ==
    IF ~IsPair(item) THEN <<item>>
    ELSE LET local_path == resolve_url_to_local(item[2])
         IN  IF local_path.ok THEN <<<<item[1], local_path.path>>>>
             ELSE <<<<item[1], item[2]>>>>

RECURSIVE rewrite_items(_)
rewrite_items(s) ==
    IF s = <<>> THEN <<>> ELSE rewrite_item(Head(s)) \o rewrite_items(Tail(s))

rewrite_asset_list(assets) ==
    IF assets.kind # "list" THEN assets ELSE AssetList(rewrite_items(assets.items))

\* url.rsplit("/", 1) on a url that is no str raises AttributeError
resolve_raises(url) == url = NoneObject

\* index of the first pair of the list on which the resolver raises, 0 when
\* rewrite_asset_list(assets) returns
FirstRaise(assets) ==
    LET I == {i \in 1..Len(assets.items) :
                 IsPair(assets.items[i]) /\ resolve_raises(assets.items[i][2])}
    IN  IF assets.kind # "list" \/ I = {} THEN 0
        ELSE CHOOSE i \in I : \A j \in I : i <= j

\* resolver invocations made by rewrite_asset_list(assets) before it raises
ResolverCallsRaising(assets) ==
    Cardinality({i \in 1..FirstRaise(assets) : IsPair(assets.items[i])})

\* resolver invocations made by rewrite_asset_list(assets)
ResolverCalls(assets) ==
    IF assets.kind # "list" THEN 0
    ELSE Cardinality({i \in 1..Len(assets.items) : IsPair(assets.items[i])})

\* rewrite_element_assets: the new value of an attribute of the element
rewrite_element_attr_default(attr) ==
    IF attr.kind = "absent" THEN rewrite_asset_list(AssetList(<<>>))
    ELSE rewrite_asset_list(attr)

rewrite_element_attr(attr) ==
    IF attr.kind = "absent" THEN attr ELSE rewrite_asset_list(attr)

----------------------------------------------------------------------------
(* The render trees of the model.  Node identities are 1..4. *)

Node == 1..4

Dict(s)   == [kind |-> "dict", kids |-> s]
NoDict    == [kind |-> "absent", kids |-> <<>>]
NotADict(s) == [kind |-> "other", kids |-> s]

JS_core  == AssetList(<< <<"leaflet", U_leaflet_js>>, <<"heat", U_heat_js>> >>)
CSS_core == AssetList(<< <<"leaflet_css", U_leaflet_css>>, <<"local", P_local_path>> >>)
JS_query == AssetList(<< <<"draw", U_draw_js_q>>, <<"leaflet_q", U_leaflet_js_q>>,
                         <<"leaflet", U_leaflet_js>> >>)
CSS_local == AssetList(<< <<"bare", P_bare_css>>, <<"leaf", P_local_leaf>>,
                          <<"data", P_data>> >>)
JS_odd   == AssetList(<< <<"solo">>, <<"heat", U_heat_js_alt>>, <<"a", "b", "c">>,
                         <<"dir", U_dir>> >>)
Empty    == AssetList(<<>>)
JS_none  == AssetList(<< <<"leaflet", U_leaflet_js>>, <<"none", NoneObject>>,
                         <<"heat", U_heat_js>> >>)
CSS_none == AssetList(<< <<"solo">>, <<"none", NoneObject>>,
                         <<"leaflet_css", U_leaflet_css>> >>)

\* diamond: 4 is a child of both 2 and 3
T_diamond ==
    [children |-> <<Dict(<<2, 3>>), Dict(<<4>>), Dict(<<4>>), Dict(<<>>)>>,
     js  |-> <<JS_core, Empty, JS_query, JS_core>>,
     css |-> <<CSS_core, CSS_local, Empty, CSS_local>>]

\* cycles: 3 has its ancestor 1 as a child, 4 is its own child
T_cycle ==
    [children |-> <<Dict(<<2>>), Dict(<<3>>), Dict(<<1, 4>>), Dict(<<4>>)>>,
     js  |-> <<JS_core, JS_query, Empty, JS_odd>>,
     css |-> <<Empty, CSS_core, CSS_local, CSS_core>>]

\* 2 and 3 are equal by value; 4 is not reachable from 1; 1 holds 2 under two keys
T_twins ==
    [children |-> <<Dict(<<2, 3, 2>>), Dict(<<>>), Dict(<<>>), Dict(<<1>>)>>,
     js  |-> <<Empty, JS_core, JS_core, JS_query>>,
     css |-> <<CSS_core, CSS_core, CSS_core, CSS_local>>]

\* 2 has no attribute at all, 3 keeps its children in a list, not a mapping
T_leaves ==
    [children |-> <<Dict(<<2, 3>>), NoDict, NotADict(<<4>>), Dict(<<>>)>>,
     js  |-> <<JS_odd, Absent, NotAList, JS_core>>,
     css |-> <<Absent, Absent, CSS_core, NotAList>>]

\* 2 has a style pair and 4 a script pair whose locator is None
T_none_url ==
    [children |-> <<Dict(<<2, 3>>), Dict(<<>>), Dict(<<>>), Dict(<<3>>)>>,
     js  |-> <<JS_core, JS_core, JS_core, JS_none>>,
     css |-> <<CSS_core, CSS_none, CSS_core, CSS_core>>]

Trees == {T_diamond, T_cycle, T_twins, T_leaves, T_none_url}

\* children.values() of a node when _children is a dict, else nothing to walk
KidsFirstOnly(ch, n) ==
    IF ch[n].kind = "dict" /\ ch[n].kids # <<>> THEN <<Head(ch[n].kids)>> ELSE <<>>

Kids(ch, n) == IF ch[n].kind = "dict" THEN ch[n].kids ELSE <<>>

----------------------------------------------------------------------------
(* The cache directory.  A file holds the response body of the URL it was   *)
(* fetched from (the body is named by its URL), or bytes older than the     *)
(* model's runs.                                                            *)

NoFile == <<"absent">>
Stale  == <<"stale">>

Body(url) == url

FileNames == {<<"leaflet.js">>, <<"leaflet.css">>, <<"heat.js">>, <<"draw.js">>, <<"x">>}

\* dest.exists() for dest = directory / filename; the directory itself exists
ExistsNever(fs, filename) == FALSE

Exists(fs, filename) ==
    \/ filename = <<>>
    \/ filename \in DOMAIN fs /\ fs[filename] # NoFile

\* dest.write_bytes(content) can succeed: dest is not the directory itself
Writable(filename) == filename \in FileNames

----------------------------------------------------------------------------
(* folium's classes, as far as the populators read them *)

Class(js, css) == [js |-> js, css |-> css]

Catalog ==
    [c \in {"Map", "HeatMap", "MarkerCluster", "Draw", "MiniMap", "MousePosition",
            "Fullscreen", "BeautifyIcon"} |->
        CASE c = "Map" ->
                Class(AssetList(<< <<"leaflet", U_leaflet_js>> >>),
                      AssetList(<< <<"leaflet_css", U_leaflet_css>>,
                                   <<"local", P_local_path>> >>))
          [] c = "HeatMap" ->
                Class(AssetList(<< <<"heat", U_heat_js>>, <<"leaflet", U_leaflet_js>> >>),
                      Empty)
          [] c = "Draw" ->
                Class(AssetList(<< <<"draw", U_draw_js_q>>, <<"heat", U_heat_js_alt>> >>),
                      AssetList(<< <<"dir", U_dir>>, <<"draw_css", U_draw_js_q>> >>))
          [] c = "MarkerCluster" ->
                Class(AssetList(<< <<"root", U_root>> >>), Empty)
          [] OTHER -> Class(Empty, Empty)]

\* str.lower() on the names the model passes on the command line
Lower(name) ==
    CASE name = "HeatMap" -> "heatmap"
      [] name = "Draw" -> "draw"
      [] OTHER -> name

\* sorted(): Python orders strings by code point; TokenRank orders the tokens
\* of the remote URLs of the model the same way
TokenRank ==
    ("/" :> 1) @@ ("?" :> 2) @@ ("cdn" :> 3) @@ ("d" :> 4) @@ ("draw.js" :> 5) @@
    ("heat.js" :> 6) @@ ("http:" :> 7) @@ ("https:" :> 8) @@ ("leaflet.css" :> 9) @@
    ("leaflet.js" :> 10) @@ ("mirror" :> 11) @@ ("v=2" :> 12) @@ ("x" :> 13) @@
    ("y" :> 14) @@ ("z" :> 15)

RECURSIVE StrLess(_, _)
StrLess(a, b) ==
    IF b = <<>> THEN FALSE
    ELSE IF a = <<>> THEN TRUE
    ELSE IF Head(a) = Head(b) THEN StrLess(Tail(a), Tail(b))
    ELSE TokenRank[Head(a)] < TokenRank[Head(b)]

RECURSIVE SortedReversed(_)
SortedReversed(S) ==
    IF S = {} THEN <<>>
    ELSE LET m == CHOOSE x \in S : \A y \in S \ {x} : StrLess(y, x)
         IN  <<m>> \o SortedReversed(S \ {m})

RECURSIVE Sorted(_)
Sorted(S) ==
    IF S = {} THEN <<>>
    ELSE LET m == CHOOSE x \in S : \A y \in S \ {x} : StrLess(x, y)
         IN  <<m>> \o Sorted(S \ {m})

Range(s) == {s[i] : i \in 1..Len(s)}

----------------------------------------------------------------------------
(* __main__.py: the populator of `python -m offline_folium` *)

Running == -1

AVAILABLE_PLUGINS ==
    ("heatmap" :> "HeatMap") @@ ("markercluster" :> "MarkerCluster") @@
    ("draw" :> "Draw") @@ ("minimap" :> "MiniMap") @@
    ("mouseposition" :> "MousePosition") @@ ("fullscreen" :> "Fullscreen") @@
    ("beautifyicon" :> "BeautifyIcon")

AllPluginKeys == <<"heatmap", "markercluster", "draw", "minimap", "mouseposition",
                   "fullscreen", "beautifyicon">>

AttrItems(attr) == IF attr.kind = "list" THEN attr.items ELSE <<>>

collect_urls_from_object_unfiltered(obj) ==
    {it[2] : it \in {x \in Range(AttrItems(obj.js)) : IsPair(x)}}
    \cup {it[2] : it \in {x \in Range(AttrItems(obj.css)) : IsPair(x)}}

collect_urls_from_object(obj) ==
    {it[2] : it \in {x \in Range(AttrItems(obj.js)) : is_remote(x[2])}}
    \cup {it[2] : it \in {x \in Range(AttrItems(obj.css)) : is_remote(x[2])}}

\* collections[key] = urls on an insertion-ordered dict
DictSet(d, key, urls) ==
    IF \E i \in 1..Len(d) : d[i].component = key
    THEN [i \in 1..Len(d) |-> IF d[i].component = key
                              THEN [component |-> key, urls |-> urls] ELSE d[i]]
    ELSE Append(d, [component |-> key, urls |-> urls])

\* the loop of collect_urls over the plugin names
RECURSIVE collect_plugins(_, _)
collect_plugins(plugins, acc) ==
    IF plugins = <<>> THEN acc
    ELSE LET plugin_name == Head(plugins)
             plugin_name_lower == Lower(plugin_name)
         IN  IF plugin_name_lower \notin DOMAIN AVAILABLE_PLUGINS
             THEN collect_plugins(Tail(plugins),
                     [acc EXCEPT !.warned = Append(@, plugin_name)])
             ELSE LET urls == collect_urls_from_object(
                                  Catalog[AVAILABLE_PLUGINS[plugin_name_lower]])
                  IN  collect_plugins(Tail(plugins),
                         IF urls # {}
                         THEN [acc EXCEPT !.collections = DictSet(@, plugin_name, urls)]
                         ELSE acc)

collect_urls(plugins) ==
    collect_plugins(plugins,
        [collections |-> <<[component |-> "Map",
                            urls |-> collect_urls_from_object(Catalog["Map"])]>>,
         warned |-> <<>>])

Job(owner, name, url) == [owner |-> owner, name |-> name, url |-> url]

\* for component, urls in collections.items(): for url in sorted(urls)
RECURSIVE cli_jobs(_)
cli_jobs(collections) ==
    IF collections = <<>> THEN <<>>
    ELSE LET c == Head(collections)
             urls == Sorted(c.urls)
         IN  [i \in 1..Len(urls) |-> Job(c.component, "", urls[i])]
             \o cli_jobs(Tail(collections))

\* filename = url.split("?")[0].rsplit("/", 1)[-1]
cli_filename(url) == RSplitLast(SplitQuery(url))

Entry(url, status, cause) == [url |-> url, status |-> status, cause |-> cause]

NetErrors == Cardinality({i \in 1..Len(report) : report[i].cause = "network"})

\* the iterations of the loop that ended in a failure
Failures(r) == Cardinality({i \in 1..Len(r) : r[i].status = "failed"})

\* no populator is running / none has run
NoArgs == [plugins |-> <<>>, force |-> FALSE, all |-> FALSE]

NoRun == [tool |-> "none", argv |-> NoArgs, clean |-> TRUE]

\* if dest.exists() and not force: the URL is skipped
skip_existing_forced(exists, f) == exists

skip_existing(exists, f) == exists /\ ~f

\* the for loop goes on with the next URL, whatever became of this one
loop_break_on_failure(p, n, status) == IF status = "failed" THEN n + 1 ELSE p + 1

loop_next(p, n, status) == p + 1

\* download_file(url, dest): the body is read from the response, then written;
\* any exception makes it return False.  write_bytes raises when dest is the
\* directory
download_file_partial(fs, filename, url, response) ==
    IF response = "ok" /\ Writable(filename)
    THEN [ok |-> TRUE, files |-> [fs EXCEPT ![filename] = Body(url)]]
    ELSE [ok |-> FALSE,
          files |-> IF Writable(filename)
                    THEN [fs EXCEPT ![filename] = <<"partial">>] ELSE fs]

download_file(fs, filename, url, response) ==
    IF response = "ok" /\ Writable(filename)
    THEN [ok |-> TRUE, files |-> [fs EXCEPT ![filename] = Body(url)]]
    ELSE [ok |-> FALSE, files |-> fs]

\* main(): the arguments, then download_assets up to its loop
CliMain(args) ==
    /\ pc = "cache"
    /\ runs < MaxRuns
    /\ LET plugins0 == IF args.all THEN AllPluginKeys ELSE args.plugins
           plugins == IF plugins0 = <<>> THEN <<"heatmap">> ELSE plugins0
           got == collect_urls(plugins)
       IN  /\ warnings' = got.warned
           /\ work' = cli_jobs(got.collections)
           /\ pc' = IF got.collections = <<>> THEN "exited" ELSE "cli_loop"
           /\ exit_code' = IF got.collections = <<>> THEN 0 ELSE Running
    /\ tool' = "cli"
    /\ argv' = args
    /\ force' = args.force
    /\ pos' = 1
    /\ success' = 0
    /\ skipped' = 0
    /\ failed' = 0
    /\ failed_urls' = <<>>
    /\ report' = <<>>
    /\ fetched' = <<>>
    /\ files0' = files
    /\ runs' = runs + 1
    /\ UNCHANGED <<treeVars, files, walkVars, resolved, ok, fail, prev>>

\* the loop body: the destination exists and force is off
CliSkip ==
    /\ pc = "cli_loop"
    /\ pos <= Len(work)
    /\ LET url == work[pos].url
           filename == cli_filename(url)
       IN  /\ skip_existing(Exists(files, filename), force)
           /\ skipped' = skipped + 1
           /\ report' = Append(report, Entry(url, "skipped", "none"))
    /\ pos' = loop_next(pos, Len(work), "skipped")
    /\ UNCHANGED <<pc, treeVars, files, walkVars, resolved, tool, force, work, success,
                   failed, failed_urls, ok, fail, exit_code, warnings, fetched, files0,
                   runs, argv,
                   prev>>

\* the loop body: download_file(url, dest); the GET succeeds with the body of
\* the URL or raises, and write_bytes raises when dest is the directory
CliDownload ==
    /\ pc = "cli_loop"
    /\ pos <= Len(work)
    /\ LET url == work[pos].url
           filename == cli_filename(url)
       IN  /\ ~skip_existing(Exists(files, filename), force)
           /\ fetched' = Append(fetched, url)
           /\ \E response \in {"ok", "error"} :
                LET r == download_file(files, filename, url, response)
                IN  /\ response = "error" => NetErrors < MaxFail
                    /\ files' = r.files
                    /\ IF r.ok
                       THEN /\ success' = success + 1
                            /\ report' = Append(report, Entry(url, "downloaded", "none"))
                            /\ pos' = loop_next(pos, Len(work), "downloaded")
                            /\ UNCHANGED <<failed, failed_urls>>
                       ELSE /\ failed' = failed + 1
                            /\ failed_urls' = Append(failed_urls, url)
                            /\ report' = Append(report, Entry(url, "failed",
                                   IF response = "error" THEN "network" ELSE "write"))
                            /\ pos' = loop_next(pos, Len(work), "failed")
                            /\ UNCHANGED success
    /\ UNCHANGED <<pc, treeVars, walkVars, resolved, tool, force, work, skipped,
                   ok, fail, exit_code, warnings, files0, runs, argv,
                   prev>>

\* after the loop: the summary, sys.exit(1) when a download failed
CliSummary ==
    /\ pc = "cli_loop"
    /\ pos > Len(work)
    /\ pc' = "exited"
    /\ exit_code' = IF failed > 0 THEN 1 ELSE 0
    /\ UNCHANGED <<treeVars, files, walkVars, resolved, tool, force, work, pos, success,
                   skipped, failed, failed_urls, ok, fail, warnings, report, fetched,
                   files0, runs, argv,
                   prev>>

----------------------------------------------------------------------------
(* vendor_folium_assets.py: the vendoring script *)

\* basename_from_url: Path(urlparse(url).path).name of a remote URL; the path
\* starts at the first "/" after the host, and Path drops trailing "/"
UrlPath(url) ==
    LET rest == SubSeq(SplitQuery(url), 4, Len(SplitQuery(url)))
        i == FirstIndexOf(rest, SLASH)
    IN  IF i = 0 THEN <<>> ELSE SubSeq(rest, i, Len(rest))

PathName(path) ==
    LET I == {i \in 1..Len(path) : path[i] # SLASH}
    IN  IF I = {} THEN <<>>
        ELSE <<path[CHOOSE i \in I : \A j \in I : j <= i]>>

basename_from_url(url) == PathName(UrlPath(url))

\* iter_assets_from_obj: the pairs of default_js, then those of default_css
iter_assets_from_obj(obj) ==
    SelectSeq(AttrItems(obj.js), IsPair) \o SelectSeq(AttrItems(obj.css), IsPair)

\* the targets of main(), in its fixed order
vendor_targets(args) ==
    LET want_map == args.include_map \/ args.all
        selected == {Lower(p) : p \in Range(args.plugins)}
                    \cup (IF args.all THEN {"heatmap", "draw", "markercluster"} ELSE {})
    IN  (IF want_map THEN <<"Map">> ELSE <<>>)
        \o (IF "heatmap" \in selected THEN <<"HeatMap">> ELSE <<>>)
        \o (IF "draw" \in selected THEN <<"Draw">> ELSE <<>>)
        \o (IF "markercluster" \in selected THEN <<"MarkerCluster">> ELSE <<>>)

\* remote: (owner, name, url) of every remote asset of every target
RECURSIVE vendor_remote(_)
vendor_remote(targets) ==
    IF targets = <<>> THEN <<>>
    ELSE LET owner == Head(targets)
             assets == SelectSeq(iter_assets_from_obj(Catalog[owner]),
                                 LAMBDA it : is_remote(it[2]))
         IN  [i \in 1..Len(assets) |-> Job(owner, assets[i][1], assets[i][2])]
             \o vendor_remote(Tail(targets))

\* remote_dedup: the first job of every URL, in order
RECURSIVE dedup(_, _)
dedup(remote, seen) ==
    IF remote = <<>> THEN <<>>
    ELSE IF Head(remote).url \in seen THEN dedup(Tail(remote), seen)
    ELSE <<Head(remote)>> \o dedup(Tail(remote), seen \cup {Head(remote).url})

\* download(url, dest, force): requests.get, raise_for_status, then
\* dest.write_bytes(r.content); an exception leaves dest as it was
download_truncating(fs, filename, url, response) ==
    IF response = "ok"
    THEN [ok |-> TRUE, files |-> [fs EXCEPT ![filename] = Body(url)]]
    ELSE [ok |-> FALSE, files |-> [fs EXCEPT ![filename] = <<>>]]

download_no_overwrite(fs, filename, url, response) ==
    IF response = "ok"
    THEN [ok |-> TRUE,
          files |-> IF fs[filename] # NoFile THEN fs
                    ELSE [fs EXCEPT ![filename] = Body(url)]]
    ELSE [ok |-> FALSE, files |-> fs]

download(fs, filename, url, response) ==
    IF response = "ok"
    THEN [ok |-> TRUE, files |-> [fs EXCEPT ![filename] = Body(url)]]
    ELSE [ok |-> FALSE, files |-> fs]

\* main() up to its download loop
VendorMain(args) ==
    /\ pc = "cache"
    /\ runs < MaxRuns
    /\ LET targets == vendor_targets(args)
           remote_dedup == dedup(vendor_remote(targets), {})
       IN  /\ work' = remote_dedup
           /\ pc' = IF targets = <<>> \/ remote_dedup = <<>> THEN "exited"
                    ELSE "vendor_loop"
           /\ exit_code' = IF targets = <<>> THEN 2
                           ELSE IF remote_dedup = <<>> THEN 0 ELSE Running
    /\ tool' = "vendor"
    /\ argv' = args
    /\ force' = args.force
    /\ pos' = 1
    /\ ok' = 0
    /\ fail' = 0
    /\ warnings' = <<>>
    /\ report' = <<>>
    /\ fetched' = <<>>
    /\ files0' = files
    /\ runs' = runs + 1
    /\ UNCHANGED <<treeVars, files, walkVars, resolved, success, skipped, failed,
                   failed_urls, prev>>

\* the loop body: basename_from_url raises ValueError
VendorNoName ==
    /\ pc = "vendor_loop"
    /\ pos <= Len(work)
    /\ basename_from_url(work[pos].url) = <<>>
    /\ fail' = fail + 1
    /\ report' = Append(report, Entry(work[pos].url, "failed", "basename"))
    /\ pos' = loop_next(pos, Len(work), "failed")
    /\ UNCHANGED <<pc, treeVars, files, walkVars, resolved, tool, force, work, success,
                   skipped, failed, failed_urls, ok, exit_code, warnings, fetched,
                   files0, runs, argv,
                   prev>>

\* the loop body: download() returns "skipped (exists)"
VendorSkip ==
    /\ pc = "vendor_loop"
    /\ pos <= Len(work)
    /\ LET url == work[pos].url
           filename == basename_from_url(url)
       IN  /\ filename # <<>>
           /\ skip_existing(Exists(files, filename), force)
           /\ ok' = ok + 1
           /\ report' = Append(report, Entry(url, "skipped", "none"))
    /\ pos' = loop_next(pos, Len(work), "skipped")
    /\ UNCHANGED <<pc, treeVars, files, walkVars, resolved, tool, force, work, success,
                   skipped, failed, failed_urls, fail, exit_code, warnings, fetched,
                   files0, runs, argv,
                   prev>>

\* the loop body: download() fetches; requests.get or raise_for_status raises,
\* or the body is written
VendorDownload ==
    /\ pc = "vendor_loop"
    /\ pos <= Len(work)
    /\ LET url == work[pos].url
           filename == basename_from_url(url)
       IN  /\ filename # <<>>
           /\ ~skip_existing(Exists(files, filename), force)
           /\ fetched' = Append(fetched, url)
           /\ \E response \in {"ok", "error"} :
                LET r == download(files, filename, url, response)
                IN  /\ response = "error" => NetErrors < MaxFail
                    /\ files' = r.files
                    /\ IF r.ok
                       THEN /\ ok' = ok + 1
                            /\ report' = Append(report, Entry(url, "downloaded", "none"))
                            /\ pos' = loop_next(pos, Len(work), "downloaded")
                            /\ UNCHANGED fail
                       ELSE /\ fail' = fail + 1
                            /\ report' = Append(report, Entry(url, "failed", "network"))
                            /\ pos' = loop_next(pos, Len(work), "failed")
                            /\ UNCHANGED ok
    /\ UNCHANGED <<pc, treeVars, walkVars, resolved, tool, force, work, success,
                   skipped, failed, failed_urls, exit_code, warnings, files0, runs, argv,
                   prev>>

\* after the loop: return 1 if fail else 0
VendorSummary ==
    /\ pc = "vendor_loop"
    /\ pos > Len(work)
    /\ pc' = "exited"
    /\ exit_code' = IF fail > 0 THEN 1 ELSE 0
    /\ UNCHANGED <<treeVars, files, walkVars, resolved, tool, force, work, pos, success,
                   skipped, failed, failed_urls, ok, fail, warnings, report, fetched,
                   files0, runs, argv,
                   prev>>

\* the populator's process is gone; the cache directory stays
ProcessExit ==
    /\ pc = "exited"
    /\ pc' = "cache"
    /\ tool' = "none"
    /\ force' = FALSE
    /\ work' = <<>>
    /\ pos' = 1
    /\ success' = 0
    /\ skipped' = 0
    /\ failed' = 0
    /\ failed_urls' = <<>>
    /\ ok' = 0
    /\ fail' = 0
    /\ exit_code' = Running
    /\ warnings' = <<>>
    /\ report' = <<>>
    /\ fetched' = <<>>
    /\ files0' = files
    /\ argv' = NoArgs
    /\ prev' = [tool |-> tool, argv |-> argv, clean |-> Failures(report) = 0]
    /\ UNCHANGED <<treeVars, files, walkVars, resolved, runs>>

CliArgs ==
    {[plugins |-> <<>>, force |-> f, all |-> FALSE] : f \in BOOLEAN}
    \cup {[plugins |-> <<"bogus", "Draw">>, force |-> f, all |-> FALSE] : f \in BOOLEAN}
    \cup {[plugins |-> <<"HeatMap", "heatmap">>, force |-> FALSE, all |-> FALSE],
          [plugins |-> <<"bogus">>, force |-> FALSE, all |-> FALSE]}
    \cup {[plugins |-> <<>>, force |-> f, all |-> TRUE] : f \in BOOLEAN}

VendorArgs ==
    {[plugins |-> <<"heatmap">>, include_map |-> TRUE, all |-> FALSE, force |-> f] :
        f \in BOOLEAN}
    \cup {[plugins |-> <<"Draw", "bogus">>, include_map |-> FALSE, all |-> FALSE,
           force |-> FALSE],
          [plugins |-> <<>>, include_map |-> FALSE, all |-> FALSE, force |-> FALSE],
          [plugins |-> <<"markercluster">>, include_map |-> FALSE, all |-> FALSE,
           force |-> FALSE]}
    \cup {[plugins |-> <<>>, include_map |-> FALSE, all |-> TRUE, force |-> f] :
              f \in BOOLEAN}

----------------------------------------------------------------------------
(* rewrite.py: rewrite_tree_assets and its inner walk() *)

ZeroCount == [n \in Node |-> 0]

Frame(n, i) == [node |-> n, i |-> i]

Top == stack[Len(stack)]

Pop == SubSeq(stack, 1, Len(stack) - 1)

\* the element walk() is at, by its three attributes
Element(n) == [js |-> default_js[n], css |-> default_css[n], children |-> children[n]]

\* rewrite_element_assets(element): binds the rewritten lists on the element
\* and touches no other attribute of it
rewrite_element_assets_detaching(el) ==
    [el EXCEPT !.js = rewrite_element_attr(@), !.css = rewrite_element_attr(@),
               !.children = IF @.kind = "dict" THEN [kind |-> "dict", kids |-> <<>>]
                            ELSE @]

rewrite_element_assets(el) ==
    [el EXCEPT !.js = rewrite_element_attr(@), !.css = rewrite_element_attr(@)]

\* the visited-set test of walk()
AlreadyVisitedNever(v, n) == FALSE

AlreadyVisitedByValue(v, n) ==
    \E m \in v : /\ js0[m] = js0[n]
                 /\ css0[m] = css0[n]
                 /\ children[m] = children[n]

AlreadyVisited(v, n) == n \in v

\* visited = set(): the set of a call, whatever the set of the call before
visited_kept(v) == v

visited_new(v) == {}

\* visited.add(node_id)
visited_add_nothing(v, n) == v

visited_add(v, n) == v \cup {n}

\* Asset lists are Python objects: two nodes whose attribute is the same
\* object (a class-level default_js shared by the instances of the class) see
\* each other's in-place changes.  heap[id] is the value of object id; the
\* attribute of a node is the object js_obj[n] / css_obj[n], 0 when the node
\* has no such attribute.
Deref(h, id) == IF id = 0 THEN Absent ELSE h[id]

\* The attribute values of a tree in the order the nodes declare them.
RECURSIVE AttrValues(_, _)
AttrValues(t, n) ==
    IF n = 0 THEN <<>>
    ELSE AttrValues(t, n - 1) \o <<t.js[n], t.css[n]>>

\* One object per distinct value: nodes with equal lists are instances of one
\* class and share the class-level list.
RECURSIVE ClassObjects(_)
ClassObjects(vals) ==
    IF vals = <<>> THEN <<>>
    ELSE LET rest == ClassObjects(SubSeq(vals, 1, Len(vals) - 1))
             v == vals[Len(vals)]
         IN  IF v = Absent \/ \E i \in 1..Len(rest) : rest[i] = v THEN rest
             ELSE Append(rest, v)

ObjectOf(h, v) ==
    IF v = Absent THEN 0 ELSE CHOOSE i \in 1..Len(h) : h[i] = v

\* rewrite_asset_list mutating the list it was given and returning it
rewrite_asset_list_in_place(h, id, value) ==
    IF id = 0 THEN
        IF value = Absent THEN [heap |-> h, id |-> 0]
        ELSE [heap |-> Append(h, value), id |-> Len(h) + 1]
    ELSE [heap |-> [h EXCEPT ![id] = value], id |-> id]

\* rewrite_asset_list as an object: a non-list argument is returned as it is,
\* for a list `rewritten = []` is a new object that receives the rewritten
\* entries and is returned; value is what the call returns for Deref(h, id).
rewrite_asset_list_object(h, id, value) ==
    IF Deref(h, id).kind # "list" /\ value = Deref(h, id) THEN [heap |-> h, id |-> id]
    ELSE [heap |-> Append(h, value), id |-> Len(h) + 1]

\* the program builds its map: folium constructs the tree of elements
BuildMap(t) ==
    /\ pc = "cache"
    /\ pc' = "idle"
    /\ default_js' = t.js
    /\ default_css' = t.css
    /\ children' = t.children
    /\ heap' = ClassObjects(AttrValues(t, Cardinality(Node)))
    /\ js_obj' = [n \in Node |-> ObjectOf(heap', t.js[n])]
    /\ css_obj' = [n \in Node |-> ObjectOf(heap', t.css[n])]
    /\ js0' = t.js
    /\ css0' = t.css
    /\ prev' = NoRun
    /\ UNCHANGED <<files, visited, stack, root, calls, rewrites, resolves, done,
                   resolved, popVars>>

\* rewrite_tree_assets(root): visited = set(); walk(root)
RewriteTreeCall(r) ==
    /\ pc = "idle"
    /\ calls < MaxCalls
    /\ pc' = "walk"
    /\ calls' = calls + 1
    /\ root' = r
    /\ visited' = visited_new(visited)
    /\ stack' = <<Frame(r, 0)>>
    /\ rewrites' = ZeroCount
    /\ resolves' = ZeroCount
    /\ js0' = default_js
    /\ css0' = default_css
    /\ UNCHANGED <<treeVars, files, done, resolved, popVars, prev>>

\* walk(node), an identity seen before: return
WalkSkip ==
    /\ pc = "walk"
    /\ stack # <<>>
    /\ Top.i = 0
    /\ AlreadyVisited(visited, Top.node)
    /\ stack' = Pop
    /\ UNCHANGED <<pc, treeVars, files, visited, root, calls, rewrites, resolves,
                   js0, css0, done, resolved, popVars, prev>>

\* walk(node), a new identity: visited.add, rewrite_element_assets(node)
WalkEnter ==
    /\ pc = "walk"
    /\ stack # <<>>
    /\ Top.i = 0
    /\ ~AlreadyVisited(visited, Top.node)
    /\ FirstRaise(default_js[Top.node]) = 0
    /\ FirstRaise(default_css[Top.node]) = 0
    /\ LET n == Top.node IN
        /\ visited' = visited_add(visited, n)
        /\ LET el == rewrite_element_assets(Element(n))
               a == rewrite_asset_list_object(heap, js_obj[n], el.js)
               b == rewrite_asset_list_object(a.heap, css_obj[n], el.css)
           IN  /\ heap' = b.heap
               /\ js_obj' = [js_obj EXCEPT ![n] = a.id]
               /\ css_obj' = [css_obj EXCEPT ![n] = b.id]
               /\ children' = [children EXCEPT ![n] = el.children]
        /\ default_js' = [m \in Node |-> Deref(heap', js_obj'[m])]
        /\ default_css' = [m \in Node |-> Deref(heap', css_obj'[m])]
        /\ rewrites' = [rewrites EXCEPT ![n] = @ + 1]
        /\ resolves' = [resolves EXCEPT ![n] =
                           @ + ResolverCalls(default_js[n]) + ResolverCalls(default_css[n])]
        /\ stack' = [stack EXCEPT ![Len(stack)] = Frame(n, 1)]
    /\ UNCHANGED <<pc, files, root, calls, js0, css0, done, resolved, popVars, prev>>

\* walk(node), a new identity: visited.add, then rewrite_element_assets(node)
\* raises in the resolver.  The attribute whose list raised is not assigned,
\* nor is default_css when default_js raised; the exception leaves walk(),
\* rewrite_tree_assets and OfflineMap.render, none of which catches it.
WalkRaise ==
    /\ pc = "walk"
    /\ stack # <<>>
    /\ Top.i = 0
    /\ ~AlreadyVisited(visited, Top.node)
    /\ FirstRaise(default_js[Top.node]) # 0 \/ FirstRaise(default_css[Top.node]) # 0
    /\ LET n == Top.node
           js_raises == FirstRaise(default_js[n]) # 0
       IN  /\ visited' = visited_add(visited, n)
           /\ LET a == IF js_raises THEN [heap |-> heap, id |-> js_obj[n]]
                       ELSE rewrite_asset_list_object(heap, js_obj[n],
                                rewrite_element_attr(default_js[n]))
              IN  /\ heap' = a.heap
                  /\ js_obj' = [js_obj EXCEPT ![n] = a.id]
           /\ default_js' = [m \in Node |-> Deref(heap', js_obj'[m])]
           /\ default_css' = [m \in Node |-> Deref(heap', css_obj[m])]
           /\ rewrites' = [rewrites EXCEPT ![n] = @ + 1]
           /\ resolves' = [resolves EXCEPT ![n] =
                  IF js_raises THEN @ + ResolverCallsRaising(default_js[n])
                  ELSE @ + ResolverCalls(default_js[n])
                         + ResolverCallsRaising(default_css[n])]
    /\ pc' = "raised"
    /\ UNCHANGED <<css_obj, children, files, stack, root, calls, js0, css0, done,
                   resolved, popVars, prev>>

\* for child in children.values(): walk(child)
WalkChild ==
    /\ pc = "walk"
    /\ stack # <<>>
    /\ Len(stack) < MaxDepth
    /\ Top.i >= 1
    /\ Top.i <= Len(Kids(children, Top.node))
    /\ stack' = [stack EXCEPT ![Len(stack)] = Frame(Top.node, Top.i + 1)]
                    \o <<Frame(Kids(children, Top.node)[Top.i], 0)>>
    /\ UNCHANGED <<pc, treeVars, files, visited, root, calls, rewrites, resolves,
                   js0, css0, done, resolved, popVars, prev>>

\* the loop over the children is over: walk(node) returns
WalkReturn ==
    /\ pc = "walk"
    /\ stack # <<>>
    /\ Top.i > Len(Kids(children, Top.node))
    /\ stack' = Pop
    /\ UNCHANGED <<pc, treeVars, files, visited, root, calls, rewrites, resolves,
                   js0, css0, done, resolved, popVars, prev>>

\* walk(root) has returned: rewrite_tree_assets returns
RewriteTreeReturn ==
    /\ pc = "walk"
    /\ stack = <<>>
    /\ pc' = "returned"
    /\ UNCHANGED <<treeVars, files, walkVars, resolved, popVars, prev>>

\* OfflineMap.render goes on to super().render()
Render ==
    /\ pc = "returned"
    /\ pc' = "idle"
    /\ done' = done \cup visited
    /\ UNCHANGED <<treeVars, files, visited, stack, root, calls, rewrites, resolves,
                   js0, css0, resolved, popVars, prev>>

Walk == WalkSkip \/ WalkEnter \/ WalkRaise \/ WalkChild \/ WalkReturn \/ RewriteTreeReturn

NoCall == [url |-> <<>>, result |-> None]

\* a direct call of the resolver, on any state of the cache directory
ResolveCall(u) ==
    /\ pc = "cache"
    /\ pc' = "resolved"
    /\ resolved' = [url |-> u, result |-> resolve_url_to_local(u)]
    /\ UNCHANGED <<treeVars, files, walkVars, popVars, prev>>

ResolveReturn ==
    /\ pc = "resolved"
    /\ pc' = "cache"
    /\ resolved' = NoCall
    /\ UNCHANGED <<treeVars, files, walkVars, popVars, prev>>

----------------------------------------------------------------------------

\* no tree is built yet
T_none ==
    [children |-> <<NoDict, NoDict, NoDict, NoDict>>,
     js  |-> <<Absent, Absent, Absent, Absent>>,
     css |-> <<Absent, Absent, Absent, Absent>>]

EmptyCache == [f \in FileNames |-> NoFile]

Init ==
    /\ pc = "cache"
    /\ default_js = T_none.js
    /\ default_css = T_none.css
    /\ children = T_none.children
    /\ heap = <<>>
    /\ js_obj = [n \in Node |-> 0]
    /\ css_obj = [n \in Node |-> 0]
    /\ files \in {EmptyCache, [EmptyCache EXCEPT ![<<"leaflet.js">>] = Stale]}
    /\ visited = {}
    /\ stack = <<>>
    /\ root = 1
    /\ calls = 0
    /\ rewrites = ZeroCount
    /\ resolves = ZeroCount
    /\ js0 = default_js
    /\ css0 = default_css
    /\ done = {}
    /\ resolved = NoCall
    /\ tool = "none"
    /\ force = FALSE
    /\ work = <<>>
    /\ pos = 1
    /\ success = 0
    /\ skipped = 0
    /\ failed = 0
    /\ failed_urls = <<>>
    /\ ok = 0
    /\ fail = 0
    /\ exit_code = Running
    /\ warnings = <<>>
    /\ report = <<>>
    /\ fetched = <<>>
    /\ files0 = files
    /\ runs = 0
    /\ argv = NoArgs
    /\ prev = NoRun

Next ==
    \/ \E args \in CliArgs : CliMain(args)
    \/ CliSkip
    \/ CliDownload
    \/ CliSummary
    \/ \E args \in VendorArgs : VendorMain(args)
    \/ VendorNoName
    \/ VendorSkip
    \/ VendorDownload
    \/ VendorSummary
    \/ ProcessExit
    \/ \E t \in Trees : BuildMap(t)
    \/ \E r \in Node : RewriteTreeCall(r)
    \/ WalkSkip
    \/ WalkEnter
    \/ WalkRaise
    \/ WalkChild
    \/ WalkReturn
    \/ RewriteTreeReturn
    \/ Render
    \/ \E u \in Locators : ResolveCall(u)
    \/ ResolveReturn

Spec == Init /\ [][Next]_vars

\* The rewriter alone, for termination.  walk() is ordinary sequential code:
\* a call that can take a step takes it.
NextRewrite ==
    \/ \E t \in Trees : BuildMap(t)
    \/ \E r \in Node : RewriteTreeCall(r)
    \/ WalkSkip
    \/ WalkEnter
    \/ WalkRaise
    \/ WalkChild
    \/ WalkReturn
    \/ RewriteTreeReturn
    \/ Render

FairSpec == Init /\ [][NextRewrite]_vars /\ WF_vars(Walk)

----------------------------------------------------------------------------
(* Properties *)

InCall == pc \in {"walk", "returned"}

\* the child relation, read directly from the _children attribute
ChildSet(n) ==
    IF children[n].kind = "dict"
    THEN {children[n].kids[i] : i \in 1..Len(children[n].kids)} ELSE {}

RECURSIVE Closure(_)
Closure(S) ==
    LET T == S \cup UNION {ChildSet(n) : n \in S}
    IN  IF T = S THEN S ELSE Closure(T)

\* the nodes reachable from r, r included
Reach(r) == Closure({r})

\* the ways walk() arrives at n: as the root, or as a value of the child
\* mapping of a reachable node
Arrivals(n) ==
    (IF n = root THEN 1 ELSE 0)
    + Cardinality(UNION {{<<p, i>> : i \in {j \in 1..Len(children[p].kids) :
                                          children[p].kind = "dict"
                                          /\ children[p].kids[j] = n}} :
                         p \in Reach(root)})

\* the asset references of n when the call started
RefCount0(n) == ResolverCalls(js0[n]) + ResolverCalls(css0[n])

OnCycle(n) == n \in Closure(ChildSet(n))

\* C1: a node that walk() arrives at along two or more paths is rewritten at
\* most once while the call runs, and exactly once when it has returned: the
\* resolver has been invoked once for each of its asset references.
C1_SharedNodeRewrittenOnce ==
    InCall =>
        \A n \in Reach(root) :
            Arrivals(n) >= 2 =>
                /\ rewrites[n] <= 1
                /\ resolves[n] <= RefCount0(n)
                /\ pc = "returned" => rewrites[n] = 1 /\ resolves[n] = RefCount0(n)

\* a call has returned on a diamond: n is a child of two distinct nodes
C1_Witness ==
    /\ pc = "returned"
    /\ \E n \in Reach(root) : \E p, q \in Reach(root) :
        /\ p # q /\ n \in ChildSet(p) /\ n \in ChildSet(q)
        /\ RefCount0(n) >= 2
        /\ resolves[n] = RefCount0(n)

\* C2: every call of rewrite_tree_assets ends, cycles included (it returns, or
\* an exception of the resolver leaves it), and the recursion never goes deeper than the number of nodes plus the one frame
\* that returns at once on a visited node.
C2_Terminates ==
    /\ [](Len(stack) <= Cardinality(Node) + 1 /\ Len(stack) < MaxDepth)
    /\ (pc = "walk") ~> (pc \in {"returned", "raised"})

\* a call has returned on a graph where a reachable node is its own descendant
C2_Witness ==
    /\ pc = "returned"
    /\ \E n \in Reach(root) : OnCycle(n) /\ n \notin ChildSet(n) /\ rewrites[n] = 1
    /\ \E n \in Reach(root) : n \in ChildSet(n) /\ rewrites[n] = 1

\* C3: when the call returns, every node reachable from the root has been
\* visited and rewritten, and its script and style lists are the rewritten
\* lists it had when the call started.
C3_AllReachableRewritten ==
    pc = "returned" =>
        \A n \in Reach(root) :
            /\ n \in visited
            /\ rewrites[n] >= 1
            /\ resolves[n] >= RefCount0(n)
            /\ default_js[n] = rewrite_element_attr(js0[n])
            /\ default_css[n] = rewrite_element_attr(css0[n])

\* a call has returned on a root from which all four nodes are reachable
C3_Witness ==
    /\ pc = "returned"
    /\ Reach(root) = Node
    /\ \E n \in Node : default_js[n] # js0[n]

\* C4: a call leaves every node that an earlier call has rewritten as that
\* call left it.
C4_Idempotent ==
    InCall =>
        \A n \in done : default_js[n] = js0[n] /\ default_css[n] = css0[n]

IsLocal(item) == IsPair(item) /\ StartsWith(item[2], local_dir)

\* a second call has returned on a tree the first call had rewritten, and the
\* tree holds local paths
C4_Witness ==
    /\ pc = "returned"
    /\ calls = 2
    /\ Reach(root) \subseteq done
    /\ visited = Reach(root)
    /\ \E n \in visited : \E i \in 1..Len(default_js[n].items) :
          IsLocal(default_js[n].items[i])

\* the remote locators of the list a kept as they are in the list b
RemoteKept(a, b) ==
    \A i \in 1..Len(a.items) :
        IsPair(a.items[i]) /\ is_remote(a.items[i][2]) => b.items[i] = a.items[i]

\* C5: for a remote URL the resolver returns a path only when the file of
\* that name is in the cache directory, so a call of rewrite_tree_assets on an
\* empty cache leaves every remote locator as it is.
C5_ResolveOnlyCached ==
    /\ pc = "resolved" /\ is_remote(resolved.url) /\ resolved.result.ok =>
          \E f \in FileNames :
              resolved.result.path = local_file(f) /\ files[f] # NoFile
    /\ pc = "returned" /\ (\A f \in FileNames : files[f] = NoFile) =>
          \A n \in visited :
              RemoteKept(js0[n], default_js[n]) /\ RemoteKept(css0[n], default_css[n])

\* the cache holds the body of the remote URL u, in the file Stored(u)
IsStored(u) == \E f \in FileNames : files[f] = Body(u)

Stored(u) == CHOOSE f \in FileNames : files[f] = Body(u)

C6_Composed(a, b) ==
    \A i \in 1..Len(a.items) :
        IsPair(a.items[i]) /\ is_remote(a.items[i][2]) /\ IsStored(a.items[i][2]) =>
            b.items[i][2] = local_file(Stored(a.items[i][2]))

\* C6: after a populator run, a call of rewrite_tree_assets replaces every
\* remote locator whose body the run stored in the cache by the path of the
\* file that holds it.  (That a URL without a cached file is kept is the part
\* of the claim that C5_ResolveOnlyCached states.)
C6_PopulateThenRewrite ==
    pc = "returned" /\ runs >= 1 =>
        \A n \in visited :
            C6_Composed(js0[n], default_js[n]) /\ C6_Composed(css0[n], default_css[n])

HasQuery(u) == FirstIndexOf(u, QMARK) # 0

\* C7: for a remote URL with a query, the resolver returns the path of the
\* file named by the last path segment, the query stripped, exactly when that
\* file is in the cache directory.
C7_QueryStripped ==
    pc = "resolved" /\ is_remote(resolved.url) /\ HasQuery(resolved.url) =>
        LET f == RSplitLast(SplitQuery(resolved.url))
        IN  /\ resolved.result.ok <=> f \in FileNames /\ files[f] # NoFile
            /\ resolved.result.ok => resolved.result.path = local_file(f)

\* the locators of the list a that are not remote kept as they are in b
LocalKept(a, b) ==
    \A i \in 1..Len(a.items) :
        IsPair(a.items[i]) /\ ~is_remote(a.items[i][2]) => b.items[i] = a.items[i]

\* C8: the resolver has no match for a string that does not start with
\* http:// or https://, and rewrite_tree_assets keeps such a locator.
C8_NonRemoteKept ==
    /\ pc = "resolved" /\ ~is_remote(resolved.url) => ~resolved.result.ok
    /\ pc = "returned" =>
          \A n \in visited :
              LocalKept(js0[n], default_js[n]) /\ LocalKept(css0[n], default_css[n])

\* the list b is the list a with the locator of every pair replaced by the
\* resolver's path when it has one
PositionWise(a, b) ==
    /\ b.kind = a.kind
    /\ Len(b.items) = Len(a.items)
    /\ \A i \in 1..Len(a.items) :
          IF IsPair(a.items[i])
          THEN /\ IsPair(b.items[i])
               /\ b.items[i][1] = a.items[i][1]
               /\ b.items[i][2] =
                     (IF resolve_url_to_local(a.items[i][2]).ok
                      THEN resolve_url_to_local(a.items[i][2]).path
                      ELSE a.items[i][2])
          ELSE b.items[i] = a.items[i]

\* C9: the lists of a visited node are the lists it had when the call
\* started, of the same length, with the same labels in the same order, and
\* with each locator replaced by the resolver's match or kept.
C9_PositionWise ==
    InCall =>
        \A n \in visited :
            /\ PositionWise(js0[n], default_js[n])
            /\ PositionWise(css0[n], default_css[n])

\* a visited node has a list of three or more entries of which one locator
\* was replaced and another kept
C9_Witness ==
    /\ pc = "returned"
    /\ \E n \in visited :
        /\ Len(js0[n].items) >= 3
        /\ \E i, j \in 1..Len(js0[n].items) :
            /\ IsPair(js0[n].items[i]) /\ IsPair(js0[n].items[j])
            /\ default_js[n].items[i] # js0[n].items[i]
            /\ default_js[n].items[j] = js0[n].items[j]

InLoop == pc \in {"cli_loop", "vendor_loop"}

\* the destination filename the running populator computes for url
Dest(url) == IF tool = "cli" THEN cli_filename(url) ELSE basename_from_url(url)

HasFile(url) == Dest(url) \in FileNames /\ files[Dest(url)] # NoFile

\* C10: a loop iteration for a URL whose destination file exists, with force
\* off, issues no GET, changes no file and reports the URL as skipped (the
\* skipped counter of __main__, the status line of the vendoring script), not
\* as downloaded; and without force no existing file changes in any iteration.
C10_SkipExisting ==
    [][ InLoop /\ ~force /\ pos' = pos + 1 =>
          /\ \A f \in FileNames : files[f] # NoFile => files'[f] = files[f]
          /\ HasFile(work[pos].url) =>
                /\ fetched' = fetched
                /\ files' = files
                /\ report' = Append(report, Entry(work[pos].url, "skipped", "none"))
                /\ tool = "cli" => skipped' = skipped + 1 /\ success' = success
                /\ failed' = failed /\ fail' = fail ]_vars

\* a run without force has skipped a URL whose file was in the cache
C10_Witness ==
    /\ InLoop /\ ~force
    /\ \E i \in 1..Len(report) :
        /\ report[i].status = "skipped"
        /\ Dest(report[i].url) \in FileNames
        /\ files0[Dest(report[i].url)] # NoFile
        /\ files[Dest(report[i].url)] = files0[Dest(report[i].url)]
        /\ report[i].url \notin Range(fetched)

----------------------------------------------------------------------------
(* The populators: force, failures, exit status *)

\* the entry the loop iteration of this step printed
LastEntry(r) == r[Len(r)]

\* C11: with force on, a loop iteration for a URL whose destination file
\* exists issues the GET anyway and never reports the URL as skipped; when
\* the GET succeeds the URL is reported as downloaded (and counted so), the
\* destination holds exactly the body of the response and no other file
\* changes.
C11_ForceRefetches ==
    [][ InLoop /\ force /\ pos' # pos /\ HasFile(work[pos].url) =>
          /\ fetched' = Append(fetched, work[pos].url)
          /\ Len(report') = Len(report) + 1
          /\ LastEntry(report').url = work[pos].url
          /\ LastEntry(report').status \in {"downloaded", "failed"}
          /\ LastEntry(report').status = "failed" =>
                LastEntry(report').cause = "network" /\ files' = files
          /\ LastEntry(report').status = "downloaded" =>
                /\ files' = [files EXCEPT ![Dest(work[pos].url)] = Body(work[pos].url)]
                /\ skipped' = skipped
                /\ IF tool = "cli" THEN success' = success + 1 ELSE ok' = ok + 1 ]_vars

\* a forced run has replaced bytes that were in the cache before it by the
\* body of the URL, and reported the URL as downloaded
C11_Witness ==
    /\ InLoop /\ force
    /\ \E i \in 1..Len(report) :
        /\ report[i].status = "downloaded"
        /\ Dest(report[i].url) \in FileNames
        /\ files0[Dest(report[i].url)] = Stale
        /\ files[Dest(report[i].url)] = Body(report[i].url)
        /\ report[i].url \in Range(fetched)

\* the URLs of the entries of r that failed, in order
FailedUrls(r) ==
    LET f == SelectSeq(r, LAMBDA e : e.status = "failed")
    IN  [i \in 1..Len(f) |-> f[i].url]

\* C12: a failing URL never ends the loop.  The loop has dealt with every URL
\* of the fetch list before its position, in order, one entry each, and when
\* the run ends it has dealt with all of them; every failure is counted and
\* its URL listed (failed and failed_urls of __main__, fail and the printed
\* entry of the vendoring script); and at the end of the run the file of
\* every URL that was downloaded is in the cache directory.
C12_FailureDoesNotAbort ==
    (InLoop \/ pc = "exited") =>
        /\ Len(report) = pos - 1
        /\ \A i \in 1..Len(report) : report[i].url = work[i].url
        /\ pc = "exited" => Len(report) = Len(work)
        /\ tool = "cli" => failed = Failures(report) /\ failed_urls = FailedUrls(report)
        /\ tool = "vendor" => fail = Failures(report)
        /\ pc = "exited" =>
              \A i \in 1..Len(report) :
                  report[i].status = "downloaded" =>
                      Dest(report[i].url) \in FileNames /\ files[Dest(report[i].url)] # NoFile

\* a run has ended in which a URL failed on the network and a later URL of the
\* list was downloaded, its file being in the cache
C12_Witness ==
    /\ pc = "exited"
    /\ \E i, j \in 1..Len(report) :
        /\ i < j
        /\ report[i].status = "failed" /\ report[i].cause = "network"
        /\ report[j].status = "downloaded"
        /\ files[Dest(report[j].url)] = Body(report[j].url)

\* C13: a populator run ends with a non-zero exit status exactly when a URL
\* failed in it; a run where every URL was downloaded or skipped, and a run
\* with nothing to fetch, end with status 0.
C13_ExitSignal ==
    pc = "exited" =>
        /\ exit_code # 0 <=> Failures(report) > 0
        /\ work = <<>> => exit_code = 0

\* C14: a loop iteration whose fetch fails changes no file; in particular a
\* destination that did not exist before the attempt does not exist after it.
C14_FailedFetchNoFile ==
    [][ InLoop /\ pos' # pos /\ LastEntry(report').status = "failed" =>
          /\ files' = files
          /\ Dest(work[pos].url) \in FileNames /\ files[Dest(work[pos].url)] = NoFile =>
                files'[Dest(work[pos].url)] = NoFile ]_vars

\* a GET has failed for a URL whose destination was not in the cache, and the
\* destination is still not there
C14_Witness ==
    /\ InLoop
    /\ report # <<>>
    /\ LastEntry(report).status = "failed" /\ LastEntry(report).cause = "network"
    /\ LastEntry(report).url \in Range(fetched)
    /\ Dest(LastEntry(report).url) \in FileNames
    /\ files0[Dest(LastEntry(report).url)] = NoFile
    /\ files[Dest(LastEntry(report).url)] = NoFile

\* C15: in one populator run no URL is dealt with twice: the fetch list
\* holds each URL once, and so does the list of the URLs that the loop has
\* fetched, skipped or counted as failed.
C15_DedupByUrl ==
    (InLoop \/ pc = "exited") =>
        /\ \A i, j \in 1..Len(work) : work[i].url = work[j].url => i = j
        /\ \A i, j \in 1..Len(report) : report[i].url = report[j].url => i = j

\* the run that ends now follows a run of the same populator with the same
\* targets in which no URL failed, and is itself without force
RerunWithoutForce ==
    /\ pc = "exited"
    /\ prev.tool = tool
    /\ prev.clean
    /\ ~force
    /\ [prev.argv EXCEPT !.force = FALSE] = argv

\* C16: a run without force that follows a run of the same targets in which
\* no fetch failed issues no GET, reports every URL of its fetch list as
\* skipped (nothing downloaded, nothing failed), leaves the cache directory as
\* it found it and ends with exit status 0.
C16_RerunSkipsAll ==
    RerunWithoutForce =>
        /\ fetched = <<>>
        /\ Len(report) = Len(work)
        /\ \A i \in 1..Len(report) : report[i].status = "skipped"
        /\ success = 0 /\ failed = 0 /\ fail = 0
        /\ files = files0
        /\ exit_code = 0

----------------------------------------------------------------------------
(* The rewriter: errors and leaves *)

\* the pairs of the list a0 that the resolver has no match for are in the
\* list a at their place, as they were
UnresolvedKept(a0, a) ==
    a0.kind = "list" =>
        \A i \in 1..Len(a0.items) :
            IsPair(a0.items[i]) /\ ~resolve_url_to_local(a0.items[i][2]).ok =>
                a.items[i] = a0.items[i]

\* C17: no exception leaves rewrite_tree_assets whatever the asset lists of
\* the reachable nodes hold, and when it has returned every reference that
\* the resolver has no match for has its original locator.
C17_NeverRaises ==
    /\ pc # "raised"
    /\ pc = "returned" =>
          \A n \in visited : /\ UnresolvedKept(js0[n], default_js[n])
                             /\ UnresolvedKept(css0[n], default_css[n])

\* C18: a missing default_js or default_css (or one that is no list) is left
\* as it is, a node whose _children is missing or no mapping is not descended
\* from, none of this raises (an exception comes from a list only), and the
\* call still rewrites every node reachable through the child mappings.
C18_LeavesTolerated ==
    pc \in {"walk", "returned", "raised"} =>
        /\ \A n \in Node :
              /\ js0[n].kind # "list" => default_js[n] = js0[n]
              /\ css0[n].kind # "list" => default_css[n] = css0[n]
        /\ visited \subseteq Reach(root)
        /\ pc = "raised" =>
              \/ FirstRaise(default_js[Top.node]) # 0
              \/ FirstRaise(default_css[Top.node]) # 0
        /\ pc = "returned" =>
              /\ visited = Reach(root)
              /\ \A n \in visited :
                    /\ js0[n].kind = "list" => default_js[n] = rewrite_asset_list(js0[n])
                    /\ css0[n].kind = "list" => default_css[n] = rewrite_asset_list(css0[n])

\* a call has returned that met a node without any of the three attributes
\* and a node that keeps its children in something that is no mapping; those
\* children were not visited, and a list of that node was rewritten
C18_Witness ==
    /\ pc = "returned"
    /\ \E n \in visited :
        /\ js0[n].kind = "absent" /\ css0[n].kind = "absent"
        /\ children[n].kind = "absent"
        /\ default_js[n] = Absent /\ default_css[n] = Absent
    /\ \E m \in visited :
        /\ children[m].kind = "other"
        /\ children[m].kids # <<>>
        /\ \A i \in 1..Len(children[m].kids) : children[m].kids[i] \notin visited
        /\ js0[m].kind = "other" /\ default_js[m] = js0[m]
        /\ default_css[m] # css0[m]

----------------------------------------------------------------------------
(* The populators: what is collected *)

\* the locators of the pairs of the default_js and default_css of a class
ClassLocators(c) ==
    {it[2] : it \in {x \in Range(AttrItems(Catalog[c].js)) \cup
                            Range(AttrItems(Catalog[c].css)) : IsPair(x)}}

\* C19: every URL of the fetch list starts with http:// or https://, and so
\* does every URL that is fetched or that has an entry in the report; the
\* counters count the entries of the report and nothing else.
C19_OnlyRemoteCollected ==
    (InLoop \/ pc = "exited") =>
        /\ \A i \in 1..Len(work) : is_remote(work[i].url)
        /\ \A i \in 1..Len(fetched) : is_remote(fetched[i])
        /\ \A i \in 1..Len(report) : is_remote(report[i].url)
        /\ success + skipped + failed + ok + fail = Len(report)

\* a run has ended that collected folium.Map, whose default_css holds a
\* locator that is not remote, and dealt with the remote URLs of Map
C19_Witness ==
    /\ pc = "exited"
    /\ \E i \in 1..Len(work) : work[i].owner = "Map"
    /\ \E u \in ClassLocators("Map") : ~is_remote(u) /\ \A i \in 1..Len(work) : work[i].url # u
    /\ \A u \in ClassLocators("Map") : is_remote(u) => \E i \in 1..Len(report) : report[i].url = u

\* the plugin names the running populator knows, in lower case
KnownNames ==
    IF tool = "cli" THEN DOMAIN AVAILABLE_PLUGINS
    ELSE {"heatmap", "draw", "markercluster"}

\* C20: every name on the command line that the populator does not know is
\* warned about, and the run goes on: the remote URLs of every known plugin
\* named with it are in the fetch list, and when the run ends each of them
\* has been dealt with.
C20_UnknownNamesWarned ==
    (InLoop \/ pc = "exited") =>
        \A p \in Range(argv.plugins) :
            IF Lower(p) \notin KnownNames
            THEN p \in Range(warnings)
            ELSE \A u \in ClassLocators(AVAILABLE_PLUGINS[Lower(p)]) :
                    is_remote(u) =>
                        /\ \E i \in 1..Len(work) : work[i].url = u
                        /\ pc = "exited" => \E i \in 1..Len(report) : report[i].url = u

\* the plugin names download_assets is called with
CliPlugins ==
    IF argv.all THEN AllPluginKeys
    ELSE IF argv.plugins = <<>> THEN <<"heatmap">> ELSE argv.plugins

\* the running populator is left with no group to collect
ZeroGroups ==
    IF tool = "cli" THEN collect_urls(CliPlugins).collections = <<>>
    ELSE vendor_targets(argv) = <<>>

\* C21: a populator run whose command line leaves it without any group is a
\* no-op: it ends at once with exit status 0, having fetched nothing and
\* written nothing.
C21_ZeroGroupsNoOp ==
    (InLoop \/ pc = "exited") /\ ZeroGroups =>
        /\ pc = "exited"
        /\ fetched = <<>>
        /\ report = <<>>
        /\ files = files0
        /\ exit_code = 0

----------------------------------------------------------------------------
(* The populators: basenames, order, counters *)

\* work[i] and work[j], i before j, are different URLs with one destination
SameDest(i, j) ==
    /\ i < j
    /\ work[i].url # work[j].url
    /\ Dest(work[i].url) \in FileNames
    /\ Dest(work[i].url) = Dest(work[j].url)

\* the iterations of the run that wrote the file d
Writes(d) ==
    {k \in 1..Len(report) : report[k].status = "downloaded" /\ Dest(report[k].url) = d}

Last(S) == CHOOSE k \in S : \A l \in S : l <= k

\* C22 as claimed: when two different URLs share a basename and no URL of the
\* run fails, each of the two is fetched and at the end of the run the file
\* holds the body of the second.
C22_SecondOverwrites ==
    pc = "exited" /\ Failures(report) = 0 =>
        \A i, j \in 1..Len(work) :
            SameDest(i, j) =>
                /\ work[i].url \in Range(fetched)
                /\ work[j].url \in Range(fetched)
                /\ files[Dest(work[j].url)] = Body(work[j].url)

\* C22 amended: two different URLs that share a basename are each dealt with
\* in their turn.  With force each is fetched, and the file ends as the body
\* of the last of them whose fetch succeeded.  Without force at most one URL
\* of that basename is written in the run, and none when the file was there
\* before it: once the earlier URL is downloaded the later one is skipped,
\* and the file keeps the earlier URL's body.
C22_SharedBasename ==
    pc = "exited" =>
        \A i, j \in 1..Len(work) :
            SameDest(i, j) =>
                LET d == Dest(work[i].url)
                IN  /\ Len(report) = Len(work)
                    /\ Writes(d) # {} => files[d] = Body(report[Last(Writes(d))].url)
                    /\ Writes(d) = {} => files[d] = files0[d]
                    /\ force =>
                          /\ work[i].url \in Range(fetched)
                          /\ work[j].url \in Range(fetched)
                          /\ report[i].status # "skipped" /\ report[j].status # "skipped"
                    /\ ~force =>
                          /\ Cardinality(Writes(d)) <= 1
                          /\ files0[d] # NoFile => Writes(d) = {}
                          /\ report[i].status = "downloaded" =>
                                /\ report[j].status = "skipped"
                                /\ files[d] = Body(work[i].url)

\* a forced run has ended in which two URLs of one basename were both
\* downloaded and the file is the body of the second, not of the first
C22_Witness ==
    /\ pc = "exited" /\ force
    /\ \E i, j \in 1..Len(work) :
        /\ SameDest(i, j)
        /\ report[i].status = "downloaded" /\ report[j].status = "downloaded"
        /\ files[Dest(work[j].url)] = Body(work[j].url)
        /\ files[Dest(work[j].url)] # Body(work[i].url)

\* the classes the running populator collects from, in the order it does
RunTargets ==
    IF tool = "cli"
    THEN LET k == SelectSeq(CliPlugins, LAMBDA p : Lower(p) \in DOMAIN AVAILABLE_PLUGINS)
         IN  <<"Map">> \o [i \in 1..Len(k) |-> AVAILABLE_PLUGINS[Lower(k[i])]]
    ELSE vendor_targets(argv)

\* the remote locators in the order collection meets them: target by target,
\* the script list of a target before its style list
RECURSIVE CollectedSeq(_)
CollectedSeq(targets) ==
    IF targets = <<>> THEN <<>>
    ELSE LET a == SelectSeq(iter_assets_from_obj(Catalog[Head(targets)]),
                            LAMBDA it : is_remote(it[2]))
         IN  [i \in 1..Len(a) |-> a[i][2]] \o CollectedSeq(Tail(targets))

FirstSeen(u) == FirstIndexOf(CollectedSeq(RunTargets), u)

\* the place of a component of __main__ among the names it collects under
OwnerPos(owner) == FirstIndexOf(<<"Map">> \o CliPlugins, owner)

\* C23 as claimed: the loop deals with the URLs in the order in which
\* collection first met them; no URL comes before one that was met earlier.
C23_FirstSeenOrder ==
    (InLoop \/ pc = "exited") =>
        \A i, j \in 1..Len(report) :
            i < j => FirstSeen(report[i].url) <= FirstSeen(report[j].url)

\* C23 amended: the loop deals with the URLs of the fetch list one after the
\* other, in the order of the list.  In the vendoring script that is the order
\* in which collection first met them.  In __main__ it is component by
\* component, in the order the components were collected, and inside a
\* component in ascending order of the URL.
C23_LoopOrder ==
    (InLoop \/ pc = "exited") =>
        /\ Len(report) <= Len(work)
        /\ \A i \in 1..Len(report) : report[i].url = work[i].url
        /\ \A i \in 1..Len(fetched) : \E k \in 1..Len(report) : report[k].url = fetched[i]
        /\ \A i, j \in 1..Len(work) :
              i < j =>
                  IF tool = "vendor"
                  THEN /\ FirstSeen(work[i].url) > 0
                       /\ FirstSeen(work[i].url) < FirstSeen(work[j].url)
                  ELSE IF work[i].owner = work[j].owner
                       THEN StrLess(work[i].url, work[j].url)
                       ELSE /\ OwnerPos(work[i].owner) > 0
                            /\ OwnerPos(work[i].owner) < OwnerPos(work[j].owner)

\* a run of __main__ has ended that dealt with a URL of a style list before a
\* URL of the script list of the same component, which collection met first
C23_Witness ==
    /\ pc = "exited" /\ tool = "cli"
    /\ \E i, j \in 1..Len(report) :
        /\ i < j
        /\ work[i].owner = work[j].owner
        /\ FirstSeen(report[j].url) < FirstSeen(report[i].url)
        /\ StrLess(report[i].url, report[j].url)

----------------------------------------------------------------------------
(* The rewriter: calls, identities, frame *)

\* rewrite_tree_assets was called and walk(root) has not taken a step
CallStarted ==
    /\ pc = "walk"
    /\ stack = <<Frame(root, 0)>>
    /\ rewrites = ZeroCount

\* C24: every call starts with an empty visited set, whatever the calls
\* before it visited, and when it returns it has visited and rewritten, in
\* this call, every node reachable from its root.
C24_FreshVisitedSet ==
    /\ CallStarted => visited = {}
    /\ pc = "returned" =>
          \A n \in Reach(root) : n \in visited /\ rewrites[n] = 1

\* a second call has returned that visited and rewrote again a node which an
\* earlier call had visited
C24_Witness ==
    /\ pc = "returned"
    /\ calls = 2
    /\ \E n \in done \cap Reach(root) : n \in visited /\ rewrites[n] = 1
    /\ \E n \in done : n \notin Reach(root)

\* n and m were equal by value when the call started: the same asset lists
\* and the same children
ValueEqual0(n, m) ==
    /\ js0[n] = js0[m]
    /\ css0[n] = css0[m]
    /\ children[n] = children[m]

\* C25: distinct nodes that are equal by value are each visited and each
\* rewritten by a call that reaches both, and a node is skipped only when the
\* call has already visited that very node: it is rewritten once however
\* often the walk arrives at it.
C25_IdentityNotValue ==
    /\ InCall => \A n \in Node : rewrites[n] <= 1 /\ (rewrites[n] = 1 <=> n \in visited)
    /\ pc = "returned" =>
          \A n, m \in Reach(root) :
              n # m /\ ValueEqual0(n, m) =>
                  /\ {n, m} \subseteq visited
                  /\ rewrites[n] = 1 /\ rewrites[m] = 1
                  /\ default_js[n] = rewrite_element_attr(js0[n])
                  /\ default_js[m] = rewrite_element_attr(js0[m])

\* a call has returned that reached two distinct nodes equal by value, whose
\* lists it changed on both, and arrived twice at one of them
C25_Witness ==
    /\ pc = "returned"
    /\ \E n, m \in Reach(root) :
        /\ n # m /\ ValueEqual0(n, m)
        /\ rewrites[n] = 1 /\ rewrites[m] = 1
        /\ default_js[n] # js0[n] /\ default_js[m] # js0[m]
        /\ Arrivals(n) >= 2

\* C26: no step of a call changes a child mapping: every node keeps its
\* _children, the same keys bound to the same nodes, and the set of nodes is
\* the same; what a step changes on the tree is the locator of pairs of the
\* lists of the node it rewrites, nothing else.
C26_OnlyLocatorsChange ==
    [][ pc = "walk" =>
          /\ children' = children
          /\ DOMAIN default_js' = DOMAIN default_js
          /\ DOMAIN default_css' = DOMAIN default_css
          /\ \A n \in Node :
                /\ stack = <<>> \/ n # Top.node =>
                      default_js'[n] = default_js[n] /\ default_css'[n] = default_css[n]
                /\ PositionWise(default_js[n], default_js'[n])
                   \/ default_js'[n] = default_js[n]
                /\ PositionWise(default_css[n], default_css'[n])
                   \/ default_css'[n] = default_css[n] ]_vars

\* a call has returned that changed locators on a node with children, and
\* the child mappings are those of the tree that was built
C26_Witness ==
    /\ pc = "returned"
    /\ children \in {t.children : t \in Trees}
    /\ \E n \in visited :
        /\ children[n].kind = "dict" /\ children[n].kids # <<>>
        /\ default_js[n] # js0[n]

\* the iterations of the run that ended with the given status
Count(status) == Cardinality({i \in 1..Len(report) : report[i].status = status})

\* C27: at the end of a run the counters add up to the number of URLs of the
\* fetch list, all of them attempted; the list of failed URLs has one entry
\* for each failure and holds the URLs that failed; and a run that starts on
\* an empty cache directory and in which no URL fails has downloaded as many
\* URLs as the targets have distinct remote URLs, has skipped none and counts
\* no failure.
C27_CountersPartition ==
    pc = "exited" =>
        /\ Len(report) = Len(work)
        /\ success + skipped + failed + ok + fail = Len(report)
        /\ tool = "cli" =>
              /\ success = Count("downloaded") /\ skipped = Count("skipped")
              /\ failed = Count("failed")
              /\ Len(failed_urls) = failed /\ failed_urls = FailedUrls(report)
        /\ tool = "vendor" => ok = Count("downloaded") + Count("skipped")
                              /\ fail = Count("failed")
        /\ files0 = EmptyCache /\ Failures(report) = 0 =>
              /\ Count("downloaded") = Cardinality({work[i].url : i \in 1..Len(work)})
              /\ Count("skipped") = 0
              /\ failed = 0 /\ fail = 0

\* C29: whenever a loop iteration reports a URL as skipped, a regular file is
\* at the destination of that URL in the cache directory, whatever the URL.
C29_SkippedHasFile ==
    [][ InLoop /\ pos' # pos /\ LastEntry(report').status = "skipped" =>
          /\ Dest(work[pos].url) \in FileNames
          /\ files[Dest(work[pos].url)] # NoFile
          /\ files'[Dest(work[pos].url)] = files[Dest(work[pos].url)] ]_vars

\* C30: with force on, a loop iteration whose fetch fails for a URL whose
\* destination file exists leaves that file, and every other file, with the
\* bytes it had: the URL is reported as failed and nothing is written.
C30_FailedRefreshKeepsFile ==
    [][ InLoop /\ force /\ pos' # pos /\ HasFile(work[pos].url)
        /\ LastEntry(report').status = "failed" =>
          /\ work[pos].url \in Range(fetched')
          /\ files'[Dest(work[pos].url)] = files[Dest(work[pos].url)]
          /\ files' = files
          /\ IF tool = "cli" THEN failed' = failed + 1 /\ success' = success
             ELSE fail' = fail + 1 /\ ok' = ok ]_vars

\* a forced fetch has failed for a URL whose file was in the cache with bytes
\* older than the run, and the file still holds those bytes
C30_Witness ==
    /\ InLoop /\ force
    /\ report # <<>>
    /\ LastEntry(report).status = "failed" /\ LastEntry(report).cause = "network"
    /\ LastEntry(report).url \in Range(fetched)
    /\ Dest(LastEntry(report).url) \in FileNames
    /\ files0[Dest(LastEntry(report).url)] = Stale
    /\ files[Dest(LastEntry(report).url)] = Stale

----------------------------------------------------------------------------
(* C28 *)

\* C28: rewrite_tree_assets never modifies an existing asset list object.
\* Every step of the walk leaves the value of every object that existed
\* before the step as it was; a visited node whose attribute was a list is
\* bound to an object that did not exist before; and every other node keeps
\* its binding and therefore its locators, also when it shared the list
\* object with the visited node.
C28_ExistingListsUntouched ==
    [][pc = "walk" =>
        /\ Len(heap') >= Len(heap)
        /\ \A id \in 1..Len(heap) : heap'[id] = heap[id]
        /\ \A m \in Node :
            /\ default_js'[m] = Deref(heap', js_obj'[m])
            /\ default_css'[m] = Deref(heap', css_obj'[m])
            /\ js_obj'[m] # js_obj[m] =>
                 /\ stack # <<>> /\ m = Top.node
                 /\ default_js[m].kind = "list"
                 /\ js_obj'[m] > Len(heap)
                 /\ \A k \in Node \ {m} : js_obj[k] = js_obj[m] =>
                       default_js'[k] = default_js[m]
            /\ css_obj'[m] # css_obj[m] =>
                 /\ stack # <<>> /\ m = Top.node
                 /\ default_css[m].kind = "list"
                 /\ css_obj'[m] > Len(heap)
                 /\ \A k \in Node \ {m} : css_obj[k] = css_obj[m] =>
                       default_css'[k] = default_css[m]
    ]_vars

\* A call returned after rewriting node n, whose default_js list was the
\* same object as that of a node m outside the traversed tree: n now has
\* local locators on another object, m still has the remote ones.
C28_Witness ==
    /\ pc = "returned"
    /\ calls = 1
    /\ \E n \in visited : \E m \in Node \ visited :
        /\ js0[n].kind = "list"
        /\ js0[n] = js0[m]
        /\ default_js[n] # js0[n]
        /\ default_js[m] = js0[m]
        /\ js_obj[n] # js_obj[m]
        /\ heap[js_obj[m]] = js0[m]

====
